---- MODULE Spec2Model ----
(***************************************************************************)
(* LoginServer: the four request handlers of src/endpoints/auth            *)
(* (post_register, post_login, post_logout, post_session) running          *)
(* concurrently against the MySQL tables `users` and `sessions`.           *)
(*                                                                         *)
(* A handler is a sequence of database round trips; one step of a handler  *)
(* action runs the code from one round trip up to the next one (or to the  *)
(* response).  Other requests and the clock may move between two steps.    *)
(* The requests being handled form a bag: tasks have no identity.          *)
(* Before it serves, main checks the schema (check_db) and creates the     *)
(* tables if the check did not pass (init_db).                             *)
(* Strings are sequences of one-character strings.                         *)
(***************************************************************************)
EXTENDS Integers, Sequences, FiniteSets, Bags, TLC

(***************************************************************************)
(* Bounds of the model.                                                    *)
(***************************************************************************)
\* clock advances observed in one run
MaxTicks == 2
\* distinct session ids the random source hands out in one run
MaxSessionIds == 2
\* length of a random id in the model (take(64) in the code); no step of a
\* handler looks inside an id
IdLen == 2
\* length of a salt in the model (take(16) in the code)
SaltLen == 1

(***************************************************************************)
(* Program constants.                                                      *)
(***************************************************************************)
BCRYPT_COST == 10
SESSION_DAYS == 30
SecondsPerDay == 24 * 60 * 60
\* chrono::Duration::days(30) in seconds (timestamp() is epoch seconds)
SessionDuration_OneDay == SecondsPerDay

SessionDuration == SESSION_DAYS * SecondsPerDay

\* request-handling tasks that can be in flight at once
Workers == {"w1", "w2"}

(***************************************************************************)
(* Option<T>: None is the empty sequence, Some(x) the one-element one.     *)
(***************************************************************************)
None == << >>
Some(x) == <<x>>

RandString(len, c) == [i \in 1..len |-> c]

RECURSIVE SetToSeq(_)
SetToSeq(S) ==
    IF S = {} THEN << >>
    ELSE LET x == CHOOSE y \in S : TRUE IN <<x>> \o SetToSeq(S \ {x})

(***************************************************************************)
(* base64 transport encoding of the form fields, and of the digest.        *)
(***************************************************************************)
Base64Encode(bytes) == [wellformed |-> TRUE, bytes |-> bytes]
Base64Garbage == [wellformed |-> FALSE, bytes |-> << >>]
Base64Decode(text) ==
    IF text.wellformed THEN [ok |-> TRUE, bytes |-> text.bytes]
    ELSE [ok |-> FALSE, bytes |-> << >>]

(***************************************************************************)
(* EMAIL_REGEX, matched unanchored by Regex::captures.                     *)
(***************************************************************************)
Letters ==
    {"a", "b", "c", "d", "e", "f", "g", "h", "i", "j", "k", "l", "m",
     "n", "o", "p", "q", "r", "s", "t", "u", "v", "w", "x", "y", "z"}
Digits == {"0", "1", "2", "3", "4", "5", "6", "7", "8", "9"}
\* the negated class [^<>()\[\]\\.,;:\s@"]
AtomExcluded ==
    {"<", ">", "(", ")", "[", "]", "\\", ".", ",", ";", ":", " ", "\t",
     "\n", "@", "\""}
\* [a-zA-Z\-0-9]
LabelChars == Letters \cup Digits \cup {"-"}

\* [^...]+(\.[^...]+)*
DotAtom(s) ==
    /\ Len(s) > 0
    /\ s[1] # "." /\ s[Len(s)] # "."
    /\ \A i \in 1..Len(s) : s[i] = "." \/ s[i] \notin AtomExcluded
    /\ \A i \in 1..(Len(s) - 1) : ~(s[i] = "." /\ s[i + 1] = ".")

\* ".+"
QuotedLocal(s) ==
    /\ Len(s) >= 3
    /\ s[1] = "\"" /\ s[Len(s)] = "\""
    /\ \A i \in 2..(Len(s) - 1) : s[i] # "\n"

\* ([a-zA-Z\-0-9]+\.)+[a-zA-Z]{2,}
HostName(s) ==
    \E k \in 2..(Len(s) - 2) :
        /\ s[k] = "."
        /\ \A i \in (k + 1)..Len(s) : s[i] \in Letters
        /\ s[1] # "."
        /\ \A i \in 1..k : s[i] = "." \/ s[i] \in LabelChars
        /\ \A i \in 1..(k - 1) : ~(s[i] = "." /\ s[i + 1] = ".")

\* [0-9]{1,3}
Octet(s) == Len(s) \in 1..3 /\ \A i \in 1..Len(s) : s[i] \in Digits

\* \[[0-9]{1,3}\.[0-9]{1,3}\.[0-9]{1,3}\.[0-9]{1,3}]
IpLiteral(s) ==
    /\ Len(s) >= 9
    /\ s[1] = "[" /\ s[Len(s)] = "]"
    /\ \E a, b, c \in 2..(Len(s) - 1) :
        /\ a < b /\ b < c
        /\ s[a] = "." /\ s[b] = "." /\ s[c] = "."
        /\ Octet(SubSeq(s, 2, a - 1))
        /\ Octet(SubSeq(s, a + 1, b - 1))
        /\ Octet(SubSeq(s, b + 1, c - 1))
        /\ Octet(SubSeq(s, c + 1, Len(s) - 1))

\* EMAIL_REGEX.captures(&email).is_some()
EmailRegexCaptures(email) ==
    \E k \in 1..Len(email) :
        /\ email[k] = "@"
        /\ \E i \in 1..k :
            \/ DotAtom(SubSeq(email, i, k - 1))
            \/ QuotedLocal(SubSeq(email, i, k - 1))
        /\ \E j \in k..Len(email) :
            \/ IpLiteral(SubSeq(email, k + 1, j))
            \/ HostName(SubSeq(email, k + 1, j))

(***************************************************************************)
(* The password pipeline: Sha512Trunc256 over password, salt and pepper    *)
(* fed in that order (a digest of the concatenation), base64 of the        *)
(* digest, bcrypt keyed with the salt, formatted as $2y$.  The digest and  *)
(* bcrypt are collision-free symbolic terms over their inputs.             *)
(***************************************************************************)
Sha512Trunc256(bytes) == [digest_of |-> bytes]
BcryptHashWithSalt(password, cost, salt) ==
    [cost |-> cost, salt |-> salt, hashed |-> password]
FormatForVersion(parts, version) ==
    [version |-> version, cost |-> parts.cost, salt |-> parts.salt,
     hash |-> parts.hashed]

\* register.rs: hasher.update(password); update(salt); update(pepper); ...
RegisterDeriveHash(password, salt, pepper) ==
    LET password_hash == Base64Encode(Sha512Trunc256(password \o salt \o pepper))
        password_bcrypt == BcryptHashWithSalt(password_hash, BCRYPT_COST, salt)
    IN  FormatForVersion(password_bcrypt, "2y")

\* the same lines as duplicated in login.rs
LoginDeriveHash_SaltFirst(password, salt, pepper) ==
    LET password_hash == Base64Encode(Sha512Trunc256(salt \o password \o pepper))
        password_bcrypt == BcryptHashWithSalt(password_hash, BCRYPT_COST, salt)
    IN  FormatForVersion(password_bcrypt, "2y")

LoginDeriveHash(password, salt, pepper) ==
    LET password_hash == Base64Encode(Sha512Trunc256(password \o salt \o pepper))
        password_bcrypt == BcryptHashWithSalt(password_hash, BCRYPT_COST, salt)
    IN  FormatForVersion(password_bcrypt, "2y")

\* environment.password_pepper
Pepper == <<"k", "k">>

(***************************************************************************)
(* Inputs of the model.                                                    *)
(***************************************************************************)
EmailA == <<"a", "@", "x", ".", "i", "o">>
EmailB == <<"b", "@", "x", ".", "i", "o">>
\* no account has EmailC
EmailC == <<"c", "@", "x", ".", "i", "o">>
EmailNoTld == <<"a", "@", "x">>
PasswordP == <<"p">>
PasswordQ == <<"q">>

SessionIdChars == <<"1", "2", "3", "4">>
SessionIdPool ==
    {RandString(IdLen, SessionIdChars[i]) : i \in 1..MaxSessionIds}
UserIdPool == {RandString(IdLen, "w")}
SaltPool == {RandString(SaltLen, "z")}

NoForm == [email_base64 |-> Base64Garbage, password_base64 |-> Base64Garbage,
           session_id |-> << >>]
\* RegisterForm / LoginForm
CredentialForm(email, password) ==
    [NoForm EXCEPT !.email_base64 = Base64Encode(email),
                   !.password_base64 = Base64Encode(password)]
CredentialForms ==
    {CredentialForm(EmailA, PasswordP), CredentialForm(EmailA, PasswordQ),
     CredentialForm(EmailB, PasswordP), CredentialForm(EmailC, PasswordP),
     CredentialForm(EmailNoTld, PasswordP),
     [NoForm EXCEPT !.password_base64 = Base64Encode(PasswordP)]}
\* LogoutRequest / SessionRequest
SessionForms == {[NoForm EXCEPT !.session_id = s] : s \in SessionIdPool}

(***************************************************************************)
(* The tables.  users has PRIMARY KEY (user_id) and no constraint on       *)
(* email; sessions has PRIMARY KEY (session_id).                           *)
(***************************************************************************)
UserRow(user_id, email, password, salt) ==
    [user_id |-> user_id, email |-> email, password |-> password, salt |-> salt]
SessionRow_OwnerLost(session_id, user_id, expiry) ==
    [session_id |-> session_id, user_id |-> session_id, expiry |-> expiry]

SessionRow(session_id, user_id, expiry) ==
    [session_id |-> session_id, user_id |-> user_id, expiry |-> expiry]


\* accounts present in the database when the server starts, each stored as
\* the registration pipeline stores it
ProvisionedUsers ==
    {UserRow(RandString(IdLen, "u"), EmailA,
             RegisterDeriveHash(PasswordP, RandString(SaltLen, "s"), Pepper),
             RandString(SaltLen, "s")),
     UserRow(RandString(IdLen, "v"), EmailB,
             RegisterDeriveHash(PasswordP, RandString(SaltLen, "t"), Pepper),
             RandString(SaltLen, "t"))}

\* a statement the server accepts has balanced parentheses
RECURSIVE ParenDepth(_, _)
ParenDepth(tokens, depth) ==
    IF tokens = << >> \/ depth < 0 THEN depth
    ELSE ParenDepth(Tail(tokens),
                    IF Head(tokens) = "(" THEN depth + 1 ELSE depth - 1)
StatementParses(parens) == ParenDepth(parens, 0) = 0

\* the parentheses of "INSERT INTO users (...) VALUES (:user_id, ..., :salt"
InsertUserParens == <<"(", ")", "(">>
\* the parentheses of "INSERT INTO sessions (...) VALUES (...)"
InsertSessionParens == <<"(", ")", "(", ")">>

\* SELECT COUNT(1) FROM users WHERE email = :email
\* an aggregate without GROUP BY: one row, whatever the count
SelectCountByEmail(rows, email) ==
    <<[count |-> Cardinality({u \in rows : u.email = email})]>>

\* SELECT password, salt, user_id FROM users WHERE email = :email
SelectUserByEmail_LimitOne(rows, email) ==
    LET matching == {u \in rows : u.email = email} IN
    IF matching = {} THEN << >> ELSE <<CHOOSE u \in matching : TRUE>>

SelectUserByEmail(rows, email) == SetToSeq({u \in rows : u.email = email})

\* SELECT email FROM users WHERE user_id = :user_id
SelectEmailByUserId_NoWhere(rows, user_id) == SetToSeq(rows)

SelectEmailByUserId(rows, user_id) ==
    SetToSeq({u \in rows : u.user_id = user_id})

\* SELECT user_id, expiry FROM sessions WHERE session_id = :session_id
SelectSession(rows, session_id) ==
    SetToSeq({s \in rows : s.session_id = session_id})

\* SELECT 1 FROM sessions WHERE session_id = :session_id
SelectSessionExists(rows, session_id) ==
    SetToSeq({1 : s \in {t \in rows : t.session_id = session_id}})

\* DELETE FROM sessions WHERE session_id = :session_id
DeleteSession_Noop(rows, session_id) == rows

\* DELETE FROM sessions, the WHERE clause left out
DeleteSession_All(rows, session_id) == {}

DeleteSession(rows, session_id) == {s \in rows : s.session_id # session_id}

\* INSERT INTO users ...: Err on a statement that does not parse or on a
\* duplicate primary key
InsertUser(rows, row) ==
    IF StatementParses(InsertUserParens)
       /\ \A u \in rows : u.user_id # row.user_id
    THEN [ok |-> TRUE, rows |-> rows \cup {row}]
    ELSE [ok |-> FALSE, rows |-> rows]

\* an insert that first drops the older sessions of the same user
InsertSession_OnePerUser(rows, row) ==
    IF \A s \in rows : s.session_id # row.session_id
    THEN [ok |-> TRUE,
          rows |-> {s \in rows : s.user_id # row.user_id} \cup {row}]
    ELSE [ok |-> FALSE, rows |-> rows]

\* INSERT INTO sessions ...
InsertSession(rows, row) ==
    IF StatementParses(InsertSessionParens)
       /\ \A s \in rows : s.session_id # row.session_id
    THEN [ok |-> TRUE, rows |-> rows \cup {row}]
    ELSE [ok |-> FALSE, rows |-> rows]

(***************************************************************************)
(* Responses.  http is the HTTP status line; status, message, ... are the  *)
(* fields of the JSON body (None when absent).                             *)
(***************************************************************************)
NoResponse ==
    [http |-> 0, status |-> None, message |-> None, session_id |-> None,
     expiry |-> None, user_id |-> None, email |-> None]
Json(status) == [NoResponse EXCEPT !.http = 200, !.status = Some(status)]
JsonMessage(status, message) ==
    [Json(status) EXCEPT !.message = Some(message)]
\* HttpResponse::BadRequest().body(err)
BadRequest == [NoResponse EXCEPT !.http = 400]
\* eprintln!(...); HttpResponse::InternalServerError().finish()
InternalServerError == [NoResponse EXCEPT !.http = 500]
\* a panicking unwrap(): the task dies without writing a response
Panicked == NoResponse

\* session.rs: chrono::Utc::now().timestamp() >= expiry
SessionExpired_Strict(clock, expiry) == clock > expiry

SessionExpired_Never(clock, expiry) == FALSE

SessionExpired(clock, expiry) == clock >= expiry

(***************************************************************************)
(* State.                                                                  *)
(***************************************************************************)
VARIABLES
    users,      \* rows of table users
    sessions,   \* rows of table sessions
    now,        \* chrono::Utc::now().timestamp()
    ticks,      \* clock advances so far
    issued,     \* random strings that are or have been stored in a table
    tasks,      \* the requests in flight, a bag of records: pc (where the
                \* handler stands), req (the request), local (the handler's
                \* local variables)
    out,        \* the response written by the last step, if it wrote one,
                \* and whether a failed round trip caused it
    tables,     \* names of the tables of the schema mysql_database
    main        \* fn main: where it stands (pc), what check_db and init_db
                \* returned, and whether a failed round trip ended it

vars == <<users, sessions, now, ticks, issued, tasks, out, tables, main>>

NoRequest == [op |-> "none", form |-> NoForm]
NoLocals ==
    [email |-> << >>, password |-> None, salt |-> << >>, user_id |-> << >>,
     session_id |-> << >>]
NoOutput ==
    [op |-> "none", form |-> NoForm, resp |-> NoResponse, fault |-> FALSE]

\* rand::thread_rng().sample_iter(&Alphanumeric).take(n): 62^n strings, a
\* repeat has negligible probability and the source never repeats a stored
\* string here (one whose INSERT failed was seen by nobody: it stays fresh).
\* No handler looks inside such a string, so the strings of a pool are
\* interchangeable and one unused string stands for the draw.
Fresh(pool) ==
    LET unused == pool \ issued IN
    IF unused = {} THEN {} ELSE {CHOOSE x \in unused : TRUE}

(***************************************************************************)
(* The schema.  Result<T, ()>: Ok(v) and Err.                              *)
(***************************************************************************)
Ok(v) == [ok |-> TRUE, value |-> v]
Err == [ok |-> FALSE, value |-> << >>]

\* required_tables_map starts with these two keys
RequiredTables == {"users", "sessions"}

\* SELECT table_name FROM INFORMATION_SCHEMA.TABLES WHERE TABLE_SCHEMA = ...
SelectTableNames(names) == SetToSeq(names)

\* check_db past its query: every listed table is entered as true, and the
\* database passes when no entry of the map is false
db_passed_Always(sql_fetch_tables) == TRUE

db_passed_Inverted(sql_fetch_tables) ==
    \A t \in RequiredTables :
        \A i \in 1..Len(sql_fetch_tables) : sql_fetch_tables[i] # t

db_passed(sql_fetch_tables) ==
    LET listed == {sql_fetch_tables[i] : i \in 1..Len(sql_fetch_tables)}
        required_tables_map == [t \in RequiredTables \cup listed |-> t \in listed]
    IN \A t \in DOMAIN required_tables_map : required_tables_map[t]

\* CREATE TABLE `name` (...): Err when the table exists (the statement has no
\* IF NOT EXISTS)
CreateTable(names, name) ==
    IF name \in names THEN [ok |-> FALSE, names |-> names]
    ELSE [ok |-> TRUE, names |-> names \cup {name}]

\* main before its first step
MainStart ==
    [pc |-> "check_db", check_db_result |-> None, init_db_result |-> None,
     fault |-> FALSE]

Init ==
    /\ tables \in SUBSET RequiredTables
    /\ main = MainStart
    /\ users = IF "users" \in tables THEN ProvisionedUsers ELSE {}
    /\ sessions = {}
    /\ now = 0
    /\ ticks = 0
    /\ issued = {u.user_id : u \in users} \cup {u.salt : u \in users}
    /\ tasks = EmptyBag
    /\ out = NoOutput

\* a round trip succeeds, or fails for want of a pooled connection
\* (get_conn, first round trip only) or on the query itself
FirstRoundTrip == {"ok", "conn_err", "query_err"}
LaterRoundTrip == {"ok", "query_err"}

\* a request not yet taken up
IdleTask == [pc |-> "idle", req |-> NoRequest, local |-> NoLocals]
\* what a handler step can act on: a request in flight, or a new one while a
\* worker is free
Slots ==
    BagToSet(tasks) \cup
        (IF BagCardinality(tasks) < Cardinality(Workers) THEN {IdleTask} ELSE {})
Without(p) == IF p = IdleTask THEN tasks ELSE tasks (-) SetToBag({p})

\* the handler of task p answers request r with response a
Finish(p, r, a) ==
    /\ tasks' = Without(p)
    /\ out' = [op |-> r.op, form |-> r.form, resp |-> a, fault |-> FALSE]

\* a round trip of task p failed: eprintln!(...) and a bare 500
Fail(p, r) ==
    /\ tasks' = Without(p)
    /\ out' = [op |-> r.op, form |-> r.form, resp |-> InternalServerError,
               fault |-> TRUE]

\* the handler of task p goes on to its next round trip with locals l
Continue(p, label, r, l) ==
    /\ tasks' = Without(p) (+) SetToBag({[pc |-> label, req |-> r, local |-> l]})
    /\ out' = NoOutput

(***************************************************************************)
(* POST /auth/logout                                                       *)
(***************************************************************************)
LogoutResponse(status) == Json(status)

\* sql_verify_session_id.unwrap().len() == 0
SessionMissing_Never(sql_verify_session_id) == FALSE

SessionMissing(sql_verify_session_id) == Len(sql_verify_session_id) = 0

post_logout(p) ==
    /\ out = NoOutput
    /\ IF p.pc = "idle" THEN
           \E form \in SessionForms, db \in FirstRoundTrip :
               LET r == [op |-> "logout", form |-> form] IN
               /\ IF db = "conn_err" THEN
                      Fail(p, r)
                  ELSE IF db = "query_err" THEN
                      Fail(p, r)
                  ELSE IF SessionMissing(
                              SelectSessionExists(sessions, form.session_id)) THEN
                      Finish(p, r, LogoutResponse(401))
                  ELSE
                      Continue(p, "logout_delete", r, NoLocals)
               /\ UNCHANGED <<users, sessions, now, ticks, issued>>
       ELSE IF p.pc = "logout_delete" THEN
           \E db \in LaterRoundTrip :
               /\ IF db = "query_err" THEN
                      /\ Fail(p, p.req)
                      /\ UNCHANGED sessions
                  ELSE
                      /\ sessions' = DeleteSession(sessions, p.req.form.session_id)
                      /\ Finish(p, p.req, LogoutResponse(200))
               /\ UNCHANGED <<users, now, ticks, issued>>
       ELSE FALSE

(***************************************************************************)
(* POST /auth/session                                                      *)
(***************************************************************************)
SessionNotFoundResponse == JsonMessage(401, "Session ID not found.")
SessionExpiredResponse == JsonMessage(401, "Session expired")
SessionOkResponse(user_id, email) ==
    [Json(200) EXCEPT !.user_id = Some(user_id), !.email = Some(email)]

post_session(p) ==
    /\ out = NoOutput
    /\ IF p.pc = "idle" THEN
           \E form \in SessionForms, db \in FirstRoundTrip :
               LET r == [op |-> "session", form |-> form]
                   rows == SelectSession(sessions, form.session_id)
               IN
               /\ IF db = "conn_err" THEN
                      Fail(p, r)
                  ELSE IF db = "query_err" THEN
                      Fail(p, r)
                  ELSE IF Len(rows) = 0 THEN
                      Finish(p, r, SessionNotFoundResponse)
                  ELSE IF SessionExpired(now, rows[1].expiry) THEN
                      Finish(p, r, SessionExpiredResponse)
                  ELSE
                      Continue(p, "session_get_email", r,
                               [NoLocals EXCEPT !.user_id = rows[1].user_id])
               /\ UNCHANGED <<users, sessions, now, ticks, issued>>
       ELSE IF p.pc = "session_get_email" THEN
           \E db \in LaterRoundTrip :
               LET rows == SelectEmailByUserId(users, p.local.user_id) IN
               /\ IF db = "query_err" THEN
                      Fail(p, p.req)
                  ELSE IF Len(rows) = 0 THEN
                      Finish(p, p.req, Panicked)
                  ELSE
                      Finish(p, p.req,
                             SessionOkResponse(p.local.user_id, rows[1].email))
               /\ UNCHANGED <<users, sessions, now, ticks, issued>>
       ELSE FALSE

(***************************************************************************)
(* POST /auth/login                                                        *)
(***************************************************************************)
LoginInvalidMessage ==
    "E-mail and password combination is invalid, or the account does not exist."
\* row_count == 0
LoginNoAccountResponse == JsonMessage(401, LoginInvalidMessage)
\* password_finalized != password_from_db
LoginMismatchResponse_Distinct == JsonMessage(401, "Wrong password.")

LoginMismatchResponse == JsonMessage(401, LoginInvalidMessage)

SessionIssuedResponse(session_id, expiry) ==
    [Json(200) EXCEPT !.session_id = Some(session_id), !.expiry = Some(expiry)]

post_login(p) ==
    /\ out = NoOutput
    /\ IF p.pc = "idle" THEN
           \E form \in CredentialForms, db \in FirstRoundTrip :
               LET r == [op |-> "login", form |-> form]
                   email_wrapped == Base64Decode(form.email_base64)
                   password_wrapped == Base64Decode(form.password_base64)
                   email == email_wrapped.bytes
                   password == password_wrapped.bytes
                   sql_fetch_user == SelectUserByEmail(users, email)
                   row_count == Len(sql_fetch_user)
                   row == sql_fetch_user[1]
                   password_finalized == LoginDeriveHash(password, row.salt, Pepper)
               IN
               /\ IF ~email_wrapped.ok \/ ~password_wrapped.ok THEN
                      Finish(p, r, BadRequest)
                  ELSE IF db = "conn_err" THEN
                      Fail(p, r)
                  ELSE IF db = "query_err" THEN
                      Fail(p, r)
                  ELSE IF row_count = 0 THEN
                      Finish(p, r, LoginNoAccountResponse)
                  ELSE IF row_count > 1 THEN
                      Finish(p, r, InternalServerError)
                  ELSE IF password_finalized # row.password THEN
                      Finish(p, r, LoginMismatchResponse)
                  ELSE
                      Continue(p, "login_insert_session", r,
                               [NoLocals EXCEPT !.user_id = row.user_id])
               /\ UNCHANGED <<users, sessions, now, ticks, issued>>
       ELSE IF p.pc = "login_insert_session" THEN
           \E db \in LaterRoundTrip, session_id \in Fresh(SessionIdPool) :
               LET expiry == now + SessionDuration
                   inserted == InsertSession(sessions,
                                   SessionRow(session_id, p.local.user_id, expiry))
               IN
               /\ IF db = "query_err" THEN
                      /\ Fail(p, p.req)
                      /\ UNCHANGED <<sessions, issued>>
                  ELSE IF ~inserted.ok THEN
                      /\ Finish(p, p.req, InternalServerError)
                      /\ UNCHANGED <<sessions, issued>>
                  ELSE
                      /\ issued' = issued \cup {session_id}
                      /\ sessions' = inserted.rows
                      /\ Finish(p, p.req, SessionIssuedResponse(session_id, expiry))
               /\ UNCHANGED <<users, now, ticks>>
       ELSE FALSE

(***************************************************************************)
(* POST /auth/register                                                     *)
(***************************************************************************)
InvalidEmailResponse_Transport == BadRequest

InvalidEmailResponse == JsonMessage(400, "Invalid E-mail address.")

AccountExistsResponse == JsonMessage(409, "Account already exists.")

\* sql_check_email_wrapped.unwrap().len() != 0
AccountExists_Inverted(sql_check_email) == Len(sql_check_email) = 0

AccountExists(sql_check_email) == Len(sql_check_email) # 0

\* a handler that writes the row without asking whether the email is taken
post_register_Unchecked(p) ==
    /\ out = NoOutput
    /\ p.pc = "idle"
    /\ \E form \in CredentialForms, user_id \in Fresh(UserIdPool),
          salt \in Fresh(SaltPool) :
           LET r == [op |-> "register", form |-> form]
               email == Base64Decode(form.email_base64).bytes
               password == Base64Decode(form.password_base64).bytes
           IN
           /\ form.email_base64.wellformed /\ form.password_base64.wellformed
           /\ EmailRegexCaptures(email)
           /\ users' = users \cup
                   {UserRow(user_id, email,
                            RegisterDeriveHash(password, salt, Pepper), salt)}
           /\ issued' = issued \cup {user_id, salt}
           /\ Finish(p, r, Json(200))
    /\ UNCHANGED <<sessions, now, ticks>>

\* a handler whose INSERT INTO users succeeds and whose INSERT INTO sessions
\* then fails: the two statements share no transaction, the user row stays
post_register_UserFirst(p) ==
    /\ out = NoOutput
    /\ p.pc = "idle"
    /\ \E form \in CredentialForms, user_id \in Fresh(UserIdPool),
          salt \in Fresh(SaltPool) :
           LET r == [op |-> "register", form |-> form]
               email == Base64Decode(form.email_base64).bytes
               password == Base64Decode(form.password_base64).bytes
           IN
           /\ form.email_base64.wellformed /\ form.password_base64.wellformed
           /\ EmailRegexCaptures(email)
           /\ users' = users \cup
                   {UserRow(user_id, email,
                            RegisterDeriveHash(password, salt, Pepper), salt)}
           /\ issued' = issued \cup {user_id, salt}
           /\ Fail(p, r)
    /\ UNCHANGED <<sessions, now, ticks>>

\* a handler that overwrites the stored row of an email that is taken
post_register_Upsert(p) ==
    /\ out = NoOutput
    /\ p.pc = "idle"
    /\ \E form \in CredentialForms, user_id \in Fresh(UserIdPool),
          salt \in Fresh(SaltPool) :
           LET r == [op |-> "register", form |-> form]
               email == Base64Decode(form.email_base64).bytes
               password == Base64Decode(form.password_base64).bytes
           IN
           /\ form.email_base64.wellformed /\ form.password_base64.wellformed
           /\ EmailRegexCaptures(email)
           /\ users' = {u \in users : u.email # email} \cup
                   {UserRow(user_id, email,
                            RegisterDeriveHash(password, salt, Pepper), salt)}
           /\ issued' = issued \cup {user_id, salt}
           /\ Finish(p, r, Json(200))
    /\ UNCHANGED <<sessions, now, ticks>>

post_register(p) ==
    /\ out = NoOutput
    /\ IF p.pc = "idle" THEN
           \E form \in CredentialForms, db \in FirstRoundTrip :
               LET r == [op |-> "register", form |-> form]
                   email_wrapped == Base64Decode(form.email_base64)
                   password_wrapped == Base64Decode(form.password_base64)
                   email == email_wrapped.bytes
                   password == password_wrapped.bytes
               IN
               /\ IF ~email_wrapped.ok \/ ~password_wrapped.ok THEN
                      Finish(p, r, BadRequest) /\ UNCHANGED issued
                  ELSE IF db = "conn_err" THEN
                      Fail(p, r) /\ UNCHANGED issued
                  ELSE IF ~EmailRegexCaptures(email) THEN
                      Finish(p, r, InvalidEmailResponse) /\ UNCHANGED issued
                  ELSE IF db = "query_err" THEN
                      Fail(p, r) /\ UNCHANGED issued
                  ELSE IF AccountExists(SelectCountByEmail(users, email)) THEN
                      Finish(p, r, AccountExistsResponse) /\ UNCHANGED issued
                  ELSE
                      \E salt \in Fresh(SaltPool),
                         session_id \in Fresh(SessionIdPool),
                         user_id \in Fresh(UserIdPool) :
                          /\ issued' = issued \cup {salt, session_id, user_id}
                          /\ Continue(p, "register_insert_user", r,
                                 [email |-> email,
                                  password |->
                                      Some(RegisterDeriveHash(password, salt, Pepper)),
                                  salt |-> salt,
                                  user_id |-> user_id,
                                  session_id |-> session_id])
               /\ UNCHANGED <<users, sessions, now, ticks>>
       ELSE IF p.pc = "register_insert_user" THEN
           \E db \in LaterRoundTrip :
               LET inserted == InsertUser(users,
                                   UserRow(p.local.user_id, p.local.email,
                                           p.local.password[1], p.local.salt))
               IN
               /\ IF db = "query_err" THEN
                      /\ Fail(p, p.req)
                      /\ UNCHANGED users
                  ELSE IF ~inserted.ok THEN
                      /\ Finish(p, p.req, InternalServerError)
                      /\ UNCHANGED users
                  ELSE
                      /\ users' = inserted.rows
                      /\ Continue(p, "register_insert_session", p.req, p.local)
               /\ UNCHANGED <<sessions, now, ticks, issued>>
       ELSE IF p.pc = "register_insert_session" THEN
           \E db \in LaterRoundTrip :
               LET expiry == now + SessionDuration
                   inserted == InsertSession(sessions,
                                   SessionRow(p.local.session_id, p.local.user_id,
                                              expiry))
               IN
               /\ IF db = "query_err" THEN
                      /\ Fail(p, p.req)
                      /\ UNCHANGED sessions
                  ELSE IF ~inserted.ok THEN
                      /\ Finish(p, p.req, InternalServerError)
                      /\ UNCHANGED sessions
                  ELSE
                      /\ sessions' = inserted.rows
                      /\ Finish(p, p.req,
                                SessionIssuedResponse(p.local.session_id, expiry))
               /\ UNCHANGED <<users, now, ticks, issued>>
       ELSE FALSE

(***************************************************************************)
(* fn main: check_db, then init_db if the database did not pass, then      *)
(* HttpServer::run.  std::process::exit(1) and a panic both end the        *)
(* process; only "serving" takes requests.                                 *)
(***************************************************************************)
\* main ends the process
Exit(pc, check_result, init_result, fault) ==
    main' = [pc |-> pc, check_db_result |-> check_result,
             init_db_result |-> init_result, fault |-> fault]

main_check_db ==
    /\ main.pc = "check_db"
    /\ \E db \in FirstRoundTrip :
        LET sql_fetch_tables == SelectTableNames(tables)
            passed == db_passed(sql_fetch_tables)
        IN
        IF db = "conn_err" THEN
            \* check_db returns Err(()), main exits
            Exit("exited", Some(Err), None, TRUE)
        ELSE IF db = "query_err" THEN
            \* the eprintln! of the Err arm unwraps the Err: a panic
            Exit("panicked", None, None, TRUE)
        ELSE
            main' = [main EXCEPT
                        !.pc = IF passed THEN "serving" ELSE "init_db_sessions",
                        !.check_db_result = Some(Ok(passed))]
    /\ UNCHANGED <<users, sessions, now, ticks, issued, tasks, out, tables>>

main_init_db ==
    /\ IF main.pc = "init_db_sessions" THEN
           \E db \in FirstRoundTrip :
               LET created == CreateTable(tables, "sessions") IN
               IF db # "ok" THEN
                   /\ Exit("exited", main.check_db_result, Some(Err), TRUE)
                   /\ UNCHANGED tables
               ELSE IF ~created.ok THEN
                   /\ Exit("exited", main.check_db_result, Some(Err), FALSE)
                   /\ UNCHANGED tables
               ELSE
                   /\ tables' = created.names
                   /\ main' = [main EXCEPT !.pc = "init_db_users"]
       ELSE IF main.pc = "init_db_users" THEN
           \E db \in LaterRoundTrip :
               LET created == CreateTable(tables, "users") IN
               IF db # "ok" THEN
                   /\ Exit("exited", main.check_db_result, Some(Err), TRUE)
                   /\ UNCHANGED tables
               ELSE IF ~created.ok THEN
                   /\ Exit("exited", main.check_db_result, Some(Err), FALSE)
                   /\ UNCHANGED tables
               ELSE
                   /\ tables' = created.names
                   /\ main' = [main EXCEPT !.pc = "serving",
                                           !.init_db_result = Some(Ok(<< >>))]
       ELSE FALSE
    /\ UNCHANGED <<users, sessions, now, ticks, issued, tasks, out>>

\* requests are taken once HttpServer runs
Serving == main.pc = "serving"

(***************************************************************************)
(* The response leaves the server; the clock advances.                     *)
(***************************************************************************)
\* responses are observed one at a time, each before the next step
Respond ==
    /\ out # NoOutput
    /\ out' = NoOutput
    /\ UNCHANGED <<users, sessions, now, ticks, issued, tasks>>

TickSteps == {1, SessionDuration - 1}

Tick ==
    /\ out = NoOutput
    /\ ticks < MaxTicks
    /\ \E d \in TickSteps : now' = now + d
    /\ ticks' = ticks + 1
    /\ out' = NoOutput
    /\ UNCHANGED <<users, sessions, issued, tasks>>

Next ==
    \/ \E p \in Slots :
          Serving /\ post_register(p) /\ UNCHANGED <<tables, main>>
    \/ \E p \in Slots :
          Serving /\ post_login(p) /\ UNCHANGED <<tables, main>>
    \/ \E p \in Slots :
          Serving /\ post_logout(p) /\ UNCHANGED <<tables, main>>
    \/ \E p \in Slots :
          Serving /\ post_session(p) /\ UNCHANGED <<tables, main>>
    \/ Respond /\ UNCHANGED <<tables, main>>
    \/ Tick /\ UNCHANGED <<tables, main>>
    \/ main_check_db
    \/ main_init_db

Spec == Init /\ [][Next]_vars

(***************************************************************************)
(* Vocabulary of the properties.  A step answers a request when it writes  *)
(* out; it answers at once when the handler was in its first step.         *)
(***************************************************************************)
Answered(op) == out' # NoOutput /\ out'.op = op
AnsweredAtOnce(op) == Answered(op) /\ tasks' = tasks
AnsweredAfter(op, label) ==
    Answered(op) /\ \E p \in BagToSet(tasks) :
                        p.pc = label /\ tasks' = tasks (-) SetToBag({p})
\* a request with this form is taken up and goes on to its second step
GoesOn(label, form) ==
    \E p \in BagToSet(tasks') :
        p.pc = label /\ p.req.form = form /\ tasks' = tasks (+) SetToBag({p})

WellFormed(form) ==
    form.email_base64.wellformed /\ form.password_base64.wellformed
FormEmail(form) == Base64Decode(form.email_base64).bytes
FormPassword(form) == Base64Decode(form.password_base64).bytes
UsersWithEmail(rows, email) == {u \in rows : u.email = email}
SessionsWithId(rows, session_id) == {s \in rows : s.session_id = session_id}
NoSessionInBody(r) == r.session_id = None /\ r.expiry = None

(***************************************************************************)
(* C1.  A Register with a valid email that no User row has, meeting no     *)
(* storage failure, answers status 200 with a session_id and an expiry,    *)
(* and leaves exactly one User row for the email and exactly one new       *)
(* Session row, owned by that user.                                        *)
(***************************************************************************)
C1_RegisterCreatesAccount ==
    [][(/\ Answered("register")
        /\ ~out'.fault
        /\ WellFormed(out'.form)
        /\ EmailRegexCaptures(FormEmail(out'.form))
        /\ UsersWithEmail(users, FormEmail(out'.form)) = {})
       => (/\ out'.resp.status = Some(200)
           /\ out'.resp.session_id # None
           /\ out'.resp.expiry # None
           /\ Cardinality(UsersWithEmail(users', FormEmail(out'.form))) = 1
           /\ Cardinality(sessions' \ sessions) = 1
           /\ \A s \in sessions' \ sessions :
                /\ Some(s.session_id) = out'.resp.session_id
                /\ \E u \in UsersWithEmail(users', FormEmail(out'.form)) :
                       s.user_id = u.user_id)]_vars

(***************************************************************************)
(* C2.  A Register with an email that a User row already has, meeting no   *)
(* storage failure, answers status 409 "Account already exists." with no   *)
(* session_id and no expiry, and adds no User row and no Session row.      *)
(***************************************************************************)
C2_RegisterExistingEmailIs409 ==
    [][(/\ Answered("register")
        /\ ~out'.fault
        /\ WellFormed(out'.form)
        /\ UsersWithEmail(users, FormEmail(out'.form)) # {})
       => (/\ out'.resp.status = Some(409)
           /\ out'.resp.message = Some("Account already exists.")
           /\ NoSessionInBody(out'.resp)
           /\ users' = users
           /\ sessions' = sessions)]_vars

C2_Witness ==
    /\ out.op = "register"
    /\ ~out.fault
    /\ FormEmail(out.form) = EmailA
    /\ UsersWithEmail(users, EmailA) # {}
    /\ out.resp.status = Some(409)

(***************************************************************************)
(* C3.  In every reachable state the users table holds at most one row     *)
(* per email, whatever the interleaving of Register requests, and no step  *)
(* changes the user_id stored for an email.                                *)
(***************************************************************************)
UniqueEmails == \A u, v \in users : u.email = v.email => u = v

C3_OneRowPerEmail ==
    /\ UniqueEmails
    /\ [][/\ UniqueEmails'
          /\ \A u \in users : \A v \in users' :
                v.email = u.email => v.user_id = u.user_id]_vars

\* a Register for an email without an account has been answered while the
\* other task is in the middle of a request
C3_Witness ==
    /\ out.op = "register"
    /\ ~out.fault
    /\ FormEmail(out.form) = EmailC
    /\ tasks # EmptyBag
    /\ UniqueEmails

(***************************************************************************)
(* C4.  For a stored user whose hash the registration pipeline made from   *)
(* password P, the user's salt and the pepper: a Login with that email     *)
(* and P, meeting no storage failure, answers status 200 with a new        *)
(* session_id and its expiry; a Login with that email and another          *)
(* password answers status 401 with no session.                            *)
(***************************************************************************)
Passwords == {PasswordP, PasswordQ}
StoredByPipeline(email, password) ==
    \E u \in users :
        /\ UsersWithEmail(users, email) = {u}
        /\ u.password = RegisterDeriveHash(password, u.salt, Pepper)
StoredWithOtherPassword(email, password) ==
    \E other \in Passwords : other # password /\ StoredByPipeline(email, other)

C4_LoginAcceptsExactlyThePassword ==
    [][/\ (AnsweredAtOnce("login") /\ ~out'.fault /\ WellFormed(out'.form))
          => /\ ~StoredByPipeline(FormEmail(out'.form), FormPassword(out'.form))
             /\ StoredWithOtherPassword(FormEmail(out'.form),
                                        FormPassword(out'.form))
                => /\ out'.resp.status = Some(401)
                   /\ NoSessionInBody(out'.resp)
                   /\ sessions' = sessions
       /\ \A form \in CredentialForms :
            GoesOn("login_insert_session", form)
            => StoredByPipeline(FormEmail(form), FormPassword(form))
       /\ (AnsweredAfter("login", "login_insert_session") /\ ~out'.fault)
          => /\ out'.resp.status = Some(200)
             /\ Cardinality(sessions' \ sessions) = 1
             /\ sessions \subseteq sessions'
             /\ \A s \in sessions' \ sessions :
                  /\ out'.resp.session_id = Some(s.session_id)
                  /\ out'.resp.expiry = Some(s.expiry)
                  /\ s.session_id \notin issued
                  /\ SessionsWithId(sessions, s.session_id) = {}]_vars

C4_Witness ==
    /\ out.op = "login"
    /\ out.form = CredentialForm(EmailA, PasswordP)
    /\ StoredByPipeline(EmailA, PasswordP)
    /\ out.resp.status = Some(200)
    /\ \E s \in sessions : out.resp.session_id = Some(s.session_id)

(***************************************************************************)
(* C5.  A Login with the email of an account and a wrong password, and a   *)
(* Login with an email that no User row has, are answered with one and     *)
(* the same response (status 401, the same message), and neither adds a    *)
(* Session row.                                                            *)
(***************************************************************************)
C5_Refusal ==
    [NoResponse EXCEPT !.http = 200, !.status = Some(401),
                       !.message = Some(LoginInvalidMessage)]

C5_LoginRefusalsAlike ==
    [][(/\ AnsweredAtOnce("login")
        /\ ~out'.fault
        /\ WellFormed(out'.form)
        /\ \/ UsersWithEmail(users, FormEmail(out'.form)) = {}
           \/ StoredWithOtherPassword(FormEmail(out'.form),
                                      FormPassword(out'.form)))
       => (out'.resp = C5_Refusal /\ sessions' = sessions)]_vars

C5_Witness ==
    /\ out.op = "login"
    /\ out.form = CredentialForm(EmailA, PasswordQ)
    /\ StoredByPipeline(EmailA, PasswordP)
    /\ out.resp.status = Some(401)

(***************************************************************************)
(* C6.  Absent storage errors, WhoAmI(session_id) answers status 200 if    *)
(* and only if, when it looks the session up, a Session row with that id   *)
(* exists and now < expiry; it answers 401 when the row is absent or       *)
(* now >= expiry, now = expiry included.                                   *)
(***************************************************************************)
SessionForm(session_id) == [NoForm EXCEPT !.session_id = session_id]
ValidNow(session_id) ==
    \E s \in SessionsWithId(sessions, session_id) : now < s.expiry

C6_WhoAmIValidIffUnexpired ==
    [][\A sid \in SessionIdPool :
        /\ (AnsweredAtOnce("session") /\ ~out'.fault
                /\ out'.form.session_id = sid)
           => (~ValidNow(sid) /\ out'.resp.status = Some(401))
        /\ GoesOn("session_get_email", SessionForm(sid)) => ValidNow(sid)
        /\ (AnsweredAfter("session", "session_get_email") /\ ~out'.fault)
           => out'.resp.status = Some(200)]_vars

\* the boundary: refused at now = expiry, the row still stored
C6_Witness ==
    /\ out.op = "session"
    /\ ~out.fault
    /\ out.resp.status = Some(401)
    /\ \E s \in sessions :
         s.session_id = out.form.session_id /\ s.expiry = now

(***************************************************************************)
(* C7.  A session issued by a successful Login belongs to the user whose   *)
(* email and password were given; a WhoAmI that finds it unexpired and     *)
(* whose row no Logout removed meanwhile answers status 200 with the       *)
(* user_id and email of that user.  A WhoAmI with a session_id that was    *)
(* never issued answers 401.                                               *)
(***************************************************************************)
C7_WhoAmINamesTheOwner ==
    [][/\ (AnsweredAfter("login", "login_insert_session")
                /\ out'.resp.status = Some(200))
          => \E s \in sessions' \ sessions :
                /\ out'.resp.session_id = Some(s.session_id)
                /\ \E u \in users :
                     /\ UsersWithEmail(users, FormEmail(out'.form)) = {u}
                     /\ s.user_id = u.user_id
       /\ \A s \in sessions : \A t \in sessions' :
            t.session_id = s.session_id => t = s
       /\ (AnsweredAfter("session", "session_get_email") /\ ~out'.fault)
          => /\ out'.resp.status = Some(200)
             /\ \A s \in SessionsWithId(sessions, out'.form.session_id) :
                  \E u \in users :
                     /\ u.user_id = s.user_id
                     /\ out'.resp.user_id = Some(u.user_id)
                     /\ out'.resp.email = Some(u.email)
       /\ (AnsweredAtOnce("session") /\ ~out'.fault
                /\ out'.form.session_id \notin issued)
          => out'.resp.status = Some(401)
       /\ \A sid \in SessionIdPool \ issued :
            ~GoesOn("session_get_email", SessionForm(sid))]_vars

\* user B logged in and WhoAmI on the session, still stored, names B
C7_Witness ==
    /\ out.op = "session"
    /\ out.resp.status = Some(200)
    /\ out.resp.email = Some(EmailB)
    /\ \E s \in sessions : \E u \in users :
         /\ s.session_id = out.form.session_id
         /\ u.user_id = s.user_id
         /\ u.email = EmailB
         /\ out.resp.user_id = Some(u.user_id)

(***************************************************************************)
(* C8.  For a stored Session row, of two Logout requests with its          *)
(* session_id run one after the other, the first answers status 200 and    *)
(* removes the row and the second answers status 401; neither is a server  *)
(* error.  (A removed row does not come back, so the second finds none.)   *)
(***************************************************************************)
Revoked(session_id) ==
    session_id \in issued /\ SessionsWithId(sessions, session_id) = {}

C8_LogoutTwice ==
    [][\A sid \in SessionIdPool :
        /\ (AnsweredAtOnce("logout") /\ ~out'.fault
                /\ out'.form.session_id = sid)
           => /\ SessionsWithId(sessions, sid) = {}
              /\ out'.resp.http = 200
              /\ out'.resp.status = Some(401)
        /\ GoesOn("logout_delete", SessionForm(sid))
           => SessionsWithId(sessions, sid) # {}
        /\ (AnsweredAfter("logout", "logout_delete") /\ ~out'.fault
                /\ out'.form.session_id = sid)
           => /\ out'.resp.http = 200
              /\ out'.resp.status = Some(200)
              /\ SessionsWithId(sessions', sid) = {}
        /\ Revoked(sid) => SessionsWithId(sessions', sid) = {}]_vars

\* the second Logout: 401 for a session_id whose row was removed
C8_Witness ==
    /\ out.op = "logout"
    /\ ~out.fault
    /\ Revoked(out.form.session_id)
    /\ out.resp.http = 200
    /\ out.resp.status = Some(401)

(***************************************************************************)
(* C9.  For a stored Session row whose expiry is not after now, WhoAmI     *)
(* answers status 401, and a Logout with that session_id is not refused:   *)
(* it goes on to delete the row and answers status 200.                    *)
(***************************************************************************)
C9_ExpiredStillRevocable ==
    [][\A s \in sessions :
        s.expiry <= now
        => /\ (AnsweredAtOnce("session") /\ ~out'.fault
                    /\ out'.form.session_id = s.session_id)
              => out'.resp.status = Some(401)
           /\ ~GoesOn("session_get_email", SessionForm(s.session_id))
           /\ (AnsweredAtOnce("logout")
                    /\ out'.form.session_id = s.session_id)
              => out'.fault
           /\ (AnsweredAfter("logout", "logout_delete") /\ ~out'.fault
                    /\ out'.form.session_id = s.session_id)
              => /\ out'.resp.status = Some(200)
                 /\ SessionsWithId(sessions', s.session_id) = {}]_vars

\* a Logout has passed its lookup of an expired row and is about to delete it
C9_Witness ==
    \E p \in BagToSet(tasks) : \E s \in sessions :
        /\ p.pc = "logout_delete"
        /\ p.req.form.session_id = s.session_id
        /\ s.expiry <= now

(***************************************************************************)
(* C10.  Once the row of a session_id was removed by a successful Logout,  *)
(* or once now >= its expiry, it stays so, and every WhoAmI that looks the *)
(* session up from then on answers 401: no step makes a revoked or         *)
(* expired session valid again.                                            *)
(***************************************************************************)
Expired(session_id) ==
    \E s \in SessionsWithId(sessions, session_id) : now >= s.expiry
Dead(session_id) == Revoked(session_id) \/ Expired(session_id)

C10_NoWayBack ==
    [][\A sid \in SessionIdPool :
        /\ (AnsweredAfter("logout", "logout_delete")
                /\ out'.resp.status = Some(200)
                /\ out'.form.session_id = sid)
           => Revoked(sid)'
        /\ Dead(sid)
           => /\ Dead(sid)'
              /\ Revoked(sid) => Revoked(sid)'
              /\ (AnsweredAtOnce("session") /\ ~out'.fault
                       /\ out'.form.session_id = sid)
                 => out'.resp.status = Some(401)
              /\ ~GoesOn("session_get_email", SessionForm(sid))]_vars

\* a WhoAmI after the Logout: 401 for a session_id whose row was removed
C10_Witness ==
    /\ out.op = "session"
    /\ ~out.fault
    /\ Revoked(out.form.session_id)
    /\ out.resp.status = Some(401)

(***************************************************************************)
(* C11.  A Session row is inserted with expiry = the time of issue plus 30 *)
(* days, and while it is stored no step changes its user_id or its expiry: *)
(* a row is only inserted or deleted.  No step of WhoAmI changes table     *)
(* sessions: it deletes no row, not even one it finds expired.             *)
(***************************************************************************)
C11_SessionRowsFixed ==
    [][/\ \A s \in sessions' \ sessions :
            /\ s.expiry = now + SESSION_DAYS * SecondsPerDay
            /\ now' = now
       /\ \A s \in sessions : \A t \in sessions' :
            t.session_id = s.session_id
            => (t.user_id = s.user_id /\ t.expiry = s.expiry)
       /\ (\/ Answered("session")
           \/ \E sid \in SessionIdPool :
                GoesOn("session_get_email", SessionForm(sid)))
          => sessions' = sessions]_vars

\* WhoAmI has answered "Session expired" and the row, past its expiry, is
\* still stored as it was issued
C11_Witness ==
    /\ out.op = "session"
    /\ out.resp = SessionExpiredResponse
    /\ \E s \in sessions :
         /\ s.session_id = out.form.session_id
         /\ s.expiry < now
         /\ s.expiry \in {t + SESSION_DAYS * SecondsPerDay : t \in 0..MaxTicks}

(***************************************************************************)
(* C12.  Whenever main is serving, tables users and sessions both exist.   *)
(* A check_db that does not return Ok, and an init_db that returns Err,    *)
(* end the process; a process that has ended stays ended; and a request    *)
(* is taken up or answered only while main is serving.                     *)
(***************************************************************************)
Ended == main.pc \in {"exited", "panicked"}

C12_ServesOnlyWithSchema ==
    /\ [](Serving => RequiredTables \subseteq tables)
    /\ [][/\ (main.pc = "check_db" /\ main' # main
                  /\ main'.check_db_result \notin {Some(Ok(TRUE)), Some(Ok(FALSE))})
             => main'.pc \in {"exited", "panicked"}
          /\ (main' # main /\ main'.init_db_result = Some(Err))
             => main'.pc = "exited"
          /\ Ended => main' = main
          /\ (tasks' # tasks \/ out' # out) => (Serving /\ main' = main)]_vars

\* the database passed the check and a request has been answered
C12_Witness ==
    /\ Serving
    /\ main.check_db_result = Some(Ok(TRUE))
    /\ RequiredTables \subseteq tables
    /\ out # NoOutput

(***************************************************************************)
(* C13.  On a database with neither table, check_db meeting no failed      *)
(* round trip returns Ok(false), not Err; and once init_db has returned    *)
(* Ok, check_db on the tables it leaves returns Ok(true).                  *)
(***************************************************************************)
C13_CheckFalseThenTrue ==
    [][/\ (main.pc = "check_db" /\ tables = {} /\ main' # main /\ ~main'.fault)
          => main'.check_db_result = Some(Ok(FALSE))
       /\ (main' # main /\ main'.init_db_result = Some(Ok(<< >>)))
          => Ok(db_passed(SelectTableNames(tables'))) = Ok(TRUE)]_vars

\* main serves after check_db returned Ok(false) on the empty schema and
\* init_db returned Ok
C13_Witness ==
    /\ Serving
    /\ main.check_db_result = Some(Ok(FALSE))
    /\ main.init_db_result = Some(Ok(<< >>))
    /\ users = {}
    /\ db_passed(SelectTableNames(tables))

(***************************************************************************)
(* C14.  init_db is idempotent: run when one or both of the tables exist   *)
(* and meeting no failed round trip, it does not return Err, and when it   *)
(* has returned both tables exist.                                         *)
(***************************************************************************)
InInitDb == main.pc \in {"init_db_sessions", "init_db_users"}

C14_InitDbIdempotent ==
    [][(InInitDb /\ main' # main /\ ~main'.fault)
       => /\ main'.init_db_result # Some(Err)
          /\ main'.init_db_result = Some(Ok(<< >>))
             => RequiredTables \subseteq tables']_vars

(***************************************************************************)
(* C15.  When the lookup by email of a Login returns more than one User    *)
(* row, the Login meeting no failed round trip is answered with a bare     *)
(* HTTP 500, not with status 401, and no session is issued, also when the  *)
(* password given is that of one of the rows.  Table users has no unique   *)
(* key on email, so such rows can be stored by other means than Register:  *)
(* SpecForeign starts from a database that holds two rows for one email.   *)
(***************************************************************************)
\* the accounts of ProvisionedUsers and a second row for EmailA, stored
\* with PasswordQ
ForeignUsers ==
    ProvisionedUsers \cup
        {UserRow(RandString(IdLen, "x"), EmailA,
                 RegisterDeriveHash(PasswordQ, RandString(SaltLen, "r"), Pepper),
                 RandString(SaltLen, "r"))}

InitForeign ==
    /\ tables \in SUBSET RequiredTables
    /\ main = MainStart
    /\ users = IF "users" \in tables THEN ForeignUsers ELSE {}
    /\ sessions = {}
    /\ now = 0
    /\ ticks = 0
    /\ issued = {u.user_id : u \in users} \cup {u.salt : u \in users}
    /\ tasks = EmptyBag
    /\ out = NoOutput

SpecForeign == InitForeign /\ [][Next]_vars

ManyRows(email) == Cardinality(UsersWithEmail(users, email)) > 1

C15_ManyRowsIsServerError ==
    [][/\ (AnsweredAtOnce("login") /\ ~out'.fault /\ WellFormed(out'.form)
                /\ ManyRows(FormEmail(out'.form)))
          => /\ out'.resp = InternalServerError
             /\ out'.resp.status # Some(401)
             /\ NoSessionInBody(out'.resp)
             /\ sessions' = sessions
       /\ \A form \in CredentialForms :
            GoesOn("login_insert_session", form) => ~ManyRows(FormEmail(form))]_vars

\* a Login with the password of one of two rows of the email was answered 500
C15_Witness ==
    /\ out.op = "login"
    /\ ~out.fault
    /\ out.form = CredentialForm(EmailA, PasswordP)
    /\ ManyRows(EmailA)
    /\ \E u \in UsersWithEmail(users, EmailA) :
         u.password = RegisterDeriveHash(PasswordP, u.salt, Pepper)
    /\ out.resp.http = 500

(***************************************************************************)
(* C16.  A Register whose email (well-formed base64) does not match        *)
(* EMAIL_REGEX, and which gets its database connection, is answered with   *)
(* a JSON body of status 400 "Invalid E-mail address." (HTTP 200, not an   *)
(* HTTP error) with no session_id and no expiry, and leaves tables users   *)
(* and sessions unchanged.                                                 *)
(***************************************************************************)
C16_InvalidEmailIs400 ==
    [][(/\ Answered("register")
        /\ ~out'.fault
        /\ WellFormed(out'.form)
        /\ ~EmailRegexCaptures(FormEmail(out'.form)))
       => (/\ AnsweredAtOnce("register")
           /\ out'.resp.http = 200
           /\ out'.resp.status = Some(400)
           /\ out'.resp.message = Some("Invalid E-mail address.")
           /\ NoSessionInBody(out'.resp)
           /\ users' = users
           /\ sessions' = sessions)]_vars

\* the Register for "a@x" (no top-level domain) has been answered 400
C16_Witness ==
    /\ out.op = "register"
    /\ ~out.fault
    /\ FormEmail(out.form) = EmailNoTld
    /\ ~EmailRegexCaptures(EmailNoTld)
    /\ out.resp.status = Some(400)

(***************************************************************************)
(* C17.  Two concurrent Registers for one email that no row has can both   *)
(* pass the existence check before either inserts, and then both insert.   *)
(* The claim is one of reachability; what it needs of every Register is    *)
(* stated here: a Register with a matching email that no User row has,     *)
(* meeting no failed round trip, is not answered by its existence check    *)
(* (it goes on to its INSERT), and its INSERT of a row with a fresh        *)
(* user_id adds the row.                                                   *)
(***************************************************************************)
C17_RegisterPassesCheck ==
    [][/\ (/\ Answered("register")
           /\ ~out'.fault
           /\ WellFormed(out'.form)
           /\ EmailRegexCaptures(FormEmail(out'.form))
           /\ UsersWithEmail(users, FormEmail(out'.form)) = {})
          => ~AnsweredAtOnce("register")
       /\ (AnsweredAfter("register", "register_insert_user") /\ ~out'.fault)
          => users' # users]_vars

(***************************************************************************)
(* C18.  When check_db has returned Ok(false) because one or both tables   *)
(* are missing, and no round trip fails, startup creates what is missing   *)
(* and goes on to serve with both tables present: main does not end, and   *)
(* when it serves both tables exist.  This includes a schema that holds    *)
(* exactly one of the two tables.                                          *)
(***************************************************************************)
C18_StartupRepairsSchema ==
    [][(/\ main' # main
        /\ main.check_db_result = Some(Ok(FALSE))
        /\ ~main'.fault)
       => /\ main'.pc \in {"init_db_users", "serving"}
          /\ main'.pc = "serving" => RequiredTables \subseteq tables']_vars

(***************************************************************************)
(* C19.  When two Logouts for one stored session_id interleave, at most    *)
(* one is answered status 200: a Logout is answered 200 only by the step   *)
(* that removes the row (session ids are never issued twice, so a row is   *)
(* removed once).                                                          *)
(***************************************************************************)
C19_OneLogoutSucceeds ==
    [][\A sid \in SessionIdPool :
        (/\ Answered("logout")
         /\ out'.form.session_id = sid
         /\ out'.resp.status = Some(200))
        => SessionsWithId(sessions, sid) # {}]_vars

(***************************************************************************)
(* C20.  In every reachable state the user_id of each Session row is the   *)
(* user_id of a stored User row, and no WhoAmI has ended in the unwrap of  *)
(* a missing first row of the email lookup.                                *)
(***************************************************************************)
OwnersStored == \A s \in sessions : \E u \in users : u.user_id = s.user_id

C20_SessionOwnerExists ==
    /\ OwnersStored
    /\ ~(out.op = "session" /\ out.resp = Panicked)

\* a WhoAmI on an unexpired session went through the email lookup and was
\* answered with the email of a stored user
C20_Witness ==
    /\ out.op = "session"
    /\ ~out.fault
    /\ out.resp.status = Some(200)
    /\ \E u \in users : out.resp.email = Some(u.email)
    /\ sessions # {}
    /\ OwnersStored

(***************************************************************************)
(* C21.  A Register that is answered with anything but status 200 (400,    *)
(* 409, 500, a storage failure at any step included) leaves the users and  *)
(* the sessions table as they were, and no User row and no Session row     *)
(* with the identifiers drawn for that request is stored afterwards.       *)
(***************************************************************************)
C21_RefusedRegisterLeavesNothing ==
    [][(Answered("register") /\ out'.resp.status # Some(200))
       => /\ users' = users
          /\ sessions' = sessions
          /\ \A p \in BagToSet(tasks) :
                 (p.req.op = "register" /\ tasks' = tasks (-) SetToBag({p}))
                 => /\ \A u \in users' : u.user_id # p.local.user_id
                    /\ \A s \in sessions' : s.session_id # p.local.session_id]_vars

\* a Register for an email without an account met a storage failure and was
\* answered 500: no row for that email is stored and no session was issued
C21_Witness ==
    /\ out.op = "register"
    /\ out.fault
    /\ out.resp = InternalServerError
    /\ WellFormed(out.form)
    /\ FormEmail(out.form) = EmailC
    /\ UsersWithEmail(users, EmailC) = {}
    /\ users = ProvisionedUsers
    /\ sessions = {}

(***************************************************************************)
(* C22.  A Logout(session_id) removes at most the one Session row with     *)
(* that session_id: every other Session row and every User row stays as it *)
(* was at each of its steps, and a Logout that finds no row with that      *)
(* session_id, or is answered 401, changes nothing at all.                 *)
(***************************************************************************)
C22_LogoutRemovesOnlyItsRow ==
    [][\A sid \in SessionIdPool :
        /\ (Answered("logout") /\ out'.form.session_id = sid)
           => /\ users' = users
              /\ sessions' \subseteq sessions
              /\ (sessions \ sessions') \subseteq SessionsWithId(sessions, sid)
              /\ Cardinality(sessions \ sessions') <= 1
              /\ (SessionsWithId(sessions, sid) = {} => sessions' = sessions)
              /\ (out'.resp.status = Some(401) => sessions' = sessions)
        /\ GoesOn("logout_delete", SessionForm(sid))
           => users' = users /\ sessions' = sessions]_vars

\* a Logout was answered 200, its row is gone, and another Session row and
\* the User rows are still stored
C22_Witness ==
    /\ out.op = "logout"
    /\ ~out.fault
    /\ out.resp.status = Some(200)
    /\ Revoked(out.form.session_id)
    /\ \E s \in sessions :
           /\ s.session_id # out.form.session_id
           /\ \E u \in users : u.user_id = s.user_id
    /\ users = ProvisionedUsers

(***************************************************************************)
(* C23.  A Login answered 200 adds exactly one Session row, the one named  *)
(* in its answer, and leaves every Session row that was stored before and  *)
(* every User row as it was; a Login answered otherwise (401, 400, 500, a  *)
(* storage failure) and a Login step that has not answered yet change      *)
(* neither table.                                                          *)
(***************************************************************************)
C23_LoginAddsOneRow ==
    [][/\ (Answered("login") /\ out'.resp.status = Some(200))
          => /\ users' = users
             /\ sessions \subseteq sessions'
             /\ Cardinality(sessions' \ sessions) = 1
             /\ \A s \in sessions' \ sessions :
                    out'.resp.session_id = Some(s.session_id)
       /\ (Answered("login") /\ out'.resp.status # Some(200))
          => users' = users /\ sessions' = sessions
       /\ (\E form \in CredentialForms : GoesOn("login_insert_session", form))
          => users' = users /\ sessions' = sessions]_vars

\* a Login was answered 200 with a new session while an older session of
\* the same user, not yet expired, is still stored
C23_Witness ==
    /\ out.op = "login"
    /\ ~out.fault
    /\ out.resp.status = Some(200)
    /\ \E s \in sessions, t \in sessions :
           /\ out.resp.session_id = Some(s.session_id)
           /\ t.session_id # s.session_id
           /\ t.user_id = s.user_id
           /\ now < t.expiry
    /\ users = ProvisionedUsers

(***************************************************************************)
(* C24.  A stored User row stays stored, with the same user_id, email,     *)
(* password hash and salt, across every step of every Register, Login,     *)
(* Logout and WhoAmI request, however the requests interleave.             *)
(***************************************************************************)
C24_UserRowsStay ==
    [][\A u \in users :
          \E v \in users' :
              /\ v.user_id = u.user_id
              /\ v.email = u.email
              /\ v.password = u.password
              /\ v.salt = u.salt]_vars

\* a Register for a stored email has been answered while a Login was under
\* way, a session has been issued and revoked by a Logout before, and the
\* provisioned User rows are stored as they were at the start
C24_Witness ==
    /\ out.op = "register"
    /\ ~out.fault
    /\ \E u \in users : FormEmail(out.form) = u.email
    /\ \E p \in BagToSet(tasks) : p.pc = "login_insert_session"
    /\ \E sid \in SessionIdPool : Revoked(sid)
    /\ ProvisionedUsers \subseteq users
    /\ users # {}

====
